---------------------------- MODULE Spec2Model ----------------------------
(***************************************************************************)
(* A model of the LightRAG sources:                                        *)
(*   - use_cases/question_answering/bhh_object_count/data.py               *)
(*       _parse_integer_answer, parse_integer_answer                       *)
(*   - use_cases/question_answering/bhh_object_count/task.py               *)
(*       ObjectCountTaskOriginal / ObjectCountTaskFewShot / ObjectCountTask*)
(*   - core/api_client.py   APIClient                                      *)
(*   - lightrag/optim/text_grad/llm_text_loss.py   LLMAsTextLoss           *)
(*   - lightrag/optim/text_grad/backend_engine_prompt.py  engine templates *)
(*   - lightrag/tests/test_litellm_class.py  LiteLLMClient error contract  *)
(*                                                                         *)
(* Each component has its own variables, initial predicate, next-state     *)
(* relation and specification (SpecParse, SpecTask, SpecClient, ...).      *)
(* A Python str is a sequence of one-character strings; the character      *)
(* U+00B2 (superscript two) is written SUP2.                               *)
(***************************************************************************)
EXTENDS Integers, Sequences, FiniteSets, TLC

VARIABLES
    \* ---- data.py: one call of _parse_integer_answer
    answer,             \* the str argument
    only_first_line,    \* the bool argument
    parseRet,           \* NotCalled, or how the call ended
    \* ---- task.py: an object-count task component and its last call
    training,           \* Component.training of the task
    taskKind,           \* the class whose call ran last
    taskMode,           \* Component.training when that call ran
    genOutput,          \* what self.llm_counter(...) returned in that call
    taskRet,            \* NotCalled, or what call returned
    \* ---- api_client.py: one APIClient instance
    phase,              \* "none", "subclass_init", "ready" or "failed"
    overrides,          \* the methods the instance's class overrides
    ownInit,            \* whether the class has an __init__ of its own
    sync_client,        \* self.sync_client
    async_client,       \* self.async_client
    clientRet,          \* NotCalled, or the last method call and how it ended
    \* ---- test_litellm_class.py: the environment and the last call made
    environ,            \* the names set in os.environ
    llmRet,             \* NotCalled, or the last call and how it ended
    \* ---- text_grad: a chain of generators, an LLMAsTextLoss and its engine
    heap,               \* the Parameter objects, by identity
    callerKwargs,       \* prompt_kwargs as the caller passes them to LLMAsTextLoss
    lossKwargs,         \* loss_llm.prompt_kwargs: key -> identity of a Parameter
    depth,              \* number of generator layers in front of the loss
    sharedPrompt,       \* whether all layers use one prompt Parameter
    gradPc,             \* where the forward / backward protocol stands
    passNo,             \* backward passes started so far
    todo,               \* nodes the running backward pass has still to visit
    engineCalls         \* the feedback-engine calls made so far, in order

parseVars == <<answer, only_first_line, parseRet>>
taskVars == <<training, taskKind, taskMode, genOutput, taskRet>>
clientVars == <<phase, overrides, ownInit, sync_client, async_client, clientRet>>
llmVars == <<environ, llmRet>>
gradVars == <<heap, callerKwargs, lossKwargs, depth, sharedPrompt, gradPc,
              passNo, todo, engineCalls>>

notParse == <<taskVars, clientVars, llmVars, gradVars>>
notTask == <<parseVars, clientVars, llmVars, gradVars>>
notClient == <<parseVars, taskVars, llmVars, gradVars>>
notLlm == <<parseVars, taskVars, clientVars, gradVars>>
notGrad == <<parseVars, taskVars, clientVars, llmVars>>

(***************************************************************************)
(* Bounds of the model.                                                    *)
(***************************************************************************)
MaxLen == 4         \* longest free-form answer string
MaxBody == 1        \* longest text in front of a final 'Answer: N' line
MaxDigits == 2      \* longest numeral N of a final 'Answer: N' line
MaxCount == 2       \* largest answer field of a structured prediction
MaxReply == 2       \* longest free-form reply of the model to a task
MaxDepth == 2       \* most generator layers in front of the loss
MaxPasses == 2      \* most forward / backward passes

NotCalled == [kind |-> "not_called"]
Return(v) == [kind |-> "return", value |-> v]
Raise(e) == [kind |-> "raise", exc |-> e]

\* Python values
PyNone == [type |-> "NoneType"]
PyInt(n) == [type |-> "int", value |-> n]

(***************************************************************************)
(* Python str primitives used by data.py.                                  *)
(***************************************************************************)
SUP2 == "SUP2"
DecimalDigits == {"0", "1", "2", "3", "4", "5", "6", "7", "8", "9"}
Whitespace == {" ", "\n", "\t"}

\* str.isdigit(): true of the decimal digits and of digit characters such as
\* U+00B2 that int() does not accept.
IsDigit(c) == c \in DecimalDigits \cup {SUP2}

IsSpace(c) == c \in Whitespace

DigitValue(c) ==
    CASE c = "0" -> 0 [] c = "1" -> 1 [] c = "2" -> 2 [] c = "3" -> 3
      [] c = "4" -> 4 [] c = "5" -> 5 [] c = "6" -> 6 [] c = "7" -> 7
      [] c = "8" -> 8 [] c = "9" -> 9

RECURSIVE LStrip(_)
LStrip(s) == IF s # <<>> /\ IsSpace(Head(s)) THEN LStrip(Tail(s)) ELSE s

RECURSIVE RStrip(_)
RStrip(s) ==
    IF s # <<>> /\ IsSpace(s[Len(s)]) THEN RStrip(SubSeq(s, 1, Len(s) - 1)) ELSE s

\* str.strip()
Strip(s) == RStrip(LStrip(s))

\* s.split(sep)[0]: the text in front of the first occurrence of sep
RECURSIVE FirstField(_, _)
FirstField(s, sep) ==
    IF s = <<>> \/ Head(s) = sep THEN <<>>
    ELSE <<Head(s)>> \o FirstField(Tail(s), sep)

\* str.split(): the maximal runs of non-whitespace characters, in order
RECURSIVE SplitFrom(_, _, _)
SplitFrom(s, cur, acc) ==
    IF s = <<>> THEN (IF cur = <<>> THEN acc ELSE Append(acc, cur))
    ELSE IF IsSpace(Head(s))
         THEN SplitFrom(Tail(s), <<>>, IF cur = <<>> THEN acc ELSE Append(acc, cur))
         ELSE SplitFrom(Tail(s), Append(cur, Head(s)), acc)

Split(s) == SplitFrom(s, <<>>, <<>>)

HasDigit(token) == \E i \in 1..Len(token) : IsDigit(token[i])

RECURSIVE DecimalValue(_)
DecimalValue(ds) ==
    IF ds = <<>> THEN 0
    ELSE 10 * DecimalValue(SubSeq(ds, 1, Len(ds) - 1)) + DigitValue(ds[Len(ds)])

\* int(str) on a string of isdigit() characters: ValueError on the empty
\* string and on a character that is no decimal digit.
IntOf(ds) ==
    IF ds = <<>> \/ \E i \in 1..Len(ds) : ds[i] \notin DecimalDigits
    THEN Raise("ValueError")
    ELSE Return(DecimalValue(ds))

(***************************************************************************)
(* data.py: _parse_integer_answer                                          *)
(***************************************************************************)
\* line 24-26: the text the tokens are taken from
ConsideredText(a, ofl) ==
    Strip(IF ofl THEN FirstField(Strip(a), "\n") ELSE a)

\* line 28: [token for token in answer.split() if any(c.isdigit() ...)]
DigitTokens(text) == SelectSeq(Split(text), HasDigit)

\* line 31-32: answer.split(".")[0], then its isdigit() characters joined
DigitsOf(token) == SelectSeq(FirstField(token, "."), IsDigit)

\* a body that takes the first token with a digit instead of the last
ParseTryBodyFirstToken(a, ofl) ==
    LET toks == DigitTokens(ConsideredText(a, ofl)) IN
    IF toks = <<>> THEN Raise("IndexError")
    ELSE IntOf(DigitsOf(toks[1]))

\* lines 24-33: the body of the try block
ParseTryBody(a, ofl) ==
    LET toks == DigitTokens(ConsideredText(a, ofl)) IN
    IF toks = <<>> THEN Raise("IndexError")
    ELSE IntOf(DigitsOf(toks[Len(toks)]))

\* a handler that catches ValueError only
ParseCaughtValueErrorOnly == {"ValueError"}

\* line 35: the exceptions the handler catches
ParseCaught == {"ValueError", "IndexError"}

\* lines 21-38
_parse_integer_answer(a, ofl) ==
    LET r == ParseTryBody(a, ofl) IN
    IF r.kind = "raise" /\ r.exc \in ParseCaught THEN Return(0) ELSE r

\* lines 41-43: the component wrapper passes both arguments through
parse_integer_answer(a, ofl) == _parse_integer_answer(a, ofl)

(***************************************************************************)
(* Inputs of the parser: every string over Alphabet up to MaxLen, and      *)
(* responses that end in a line 'Answer: N'.                               *)
(***************************************************************************)
Alphabet == {"0", "1", "7", "a", ".", " ", "\n", SUP2}

RECURSIVE StrsOfLen(_, _)
StrsOfLen(S, n) ==
    IF n = 0 THEN {<<>>}
    ELSE {Append(s, c) : s \in StrsOfLen(S, n - 1), c \in S}

StrsUpTo(S, n) == UNION {StrsOfLen(S, k) : k \in 0..n}

AnswerPrefix == <<"A", "n", "s", "w", "e", "r", ":", " ">>

Numerals == StrsUpTo(Alphabet \cap DecimalDigits, MaxDigits) \ {<<>>}

\* the last line is 'Answer: N'; no text, or text and a line break, before it
AnswerResponses ==
    {AnswerPrefix \o n : n \in Numerals}
    \cup {b \o <<"\n">> \o AnswerPrefix \o n :
            b \in StrsUpTo(Alphabet, MaxBody), n \in Numerals}

ParseInputs == StrsUpTo(Alphabet, MaxLen) \cup AnswerResponses

InitParse ==
    /\ answer \in ParseInputs
    /\ only_first_line \in BOOLEAN
    /\ parseRet = NotCalled

\* one call _parse_integer_answer(answer, only_first_line)
ParseCall ==
    /\ parseRet = NotCalled
    /\ parseRet' = _parse_integer_answer(answer, only_first_line)
    /\ UNCHANGED <<answer, only_first_line>>
    /\ UNCHANGED notParse

IdleParse ==
    /\ answer = <<>>
    /\ only_first_line = FALSE
    /\ parseRet = NotCalled

NextParse == ParseCall

(***************************************************************************)
(* task.py: the three object-count task components.                        *)
(***************************************************************************)
TaskKinds == {"ObjectCountTaskOriginal", "ObjectCountTaskFewShot", "ObjectCountTask"}

\* data.py lines 12-18: ObjectCountPredData(thought, answer)
ObjectCountPredData(a) == [type |-> "ObjectCountPredData", answer |-> a]

\* the answer field is whatever integer the model's structured reply held
AnswerValues == (0 - 1)..MaxCount

\* what the model may reply to a string-output task: short free-form text,
\* or text that ends in the line the system prompt asks for
TaskResponses ==
    StrsUpTo(Alphabet, MaxReply)
    \cup {AnswerPrefix \o <<"7">>, <<"a", "\n">> \o AnswerPrefix \o <<"1", "0">>}

GeneratorOutput(d, raw) == [type |-> "GeneratorOutput", data |-> d, raw_response |-> raw]

\* Generator.call of llm_counter: data is the output processor applied to the
\* raw response, or None when the API call or the processor failed.
\* Original / FewShot (task.py line 42, 112): output_processors=parse_integer_answer
StringCounterOutputs ==
    {GeneratorOutput(PyInt(parse_integer_answer(raw, FALSE).value), raw) :
        raw \in TaskResponses}
    \cup {GeneratorOutput(PyNone, raw) : raw \in {<<>>}}

\* ObjectCountTask (task.py line 171-183): a parser into ObjectCountPredData
StructuredCounterOutputs ==
    {GeneratorOutput(ObjectCountPredData(a), <<"a">>) : a \in AnswerValues}
    \cup {GeneratorOutput(PyNone, <<"a">>)}

\* Component.__call__ of the generator: forward (a Parameter holding the
\* output) when the component trains, call otherwise
LlmCounter(outputs, train) ==
    IF train THEN {[type |-> "Parameter", data |-> o] : o \in outputs}
    ELSE outputs

\* int(x) of a Python int
PyIntOf(v) == PyInt(v.value)

\* ObjectCountTaskOriginal.call with a sentinel of 0 instead of -1
ObjectCountTaskOriginal_call_Zero(output, train) ==
    IF ~train
    THEN (IF output.data = PyNone THEN PyInt(0) ELSE PyIntOf(output.data))
    ELSE output

\* task.py lines 50-62
ObjectCountTaskOriginal_call(output, train) ==
    IF ~train
    THEN (IF output.data = PyNone THEN PyInt(0 - 1) ELSE PyIntOf(output.data))
    ELSE output

\* task.py lines 123-139
ObjectCountTaskFewShot_call(output, train) ==
    IF ~train
    THEN (IF output.data = PyNone THEN PyInt(0 - 1) ELSE PyIntOf(output.data))
    ELSE output

\* task.py lines 189-201
ObjectCountTask_call(output, train) ==
    IF ~train
    THEN (IF output.data = PyNone THEN PyInt(0 - 1) ELSE PyInt(output.data.answer))
    ELSE output

InitTask ==
    /\ training = FALSE
    /\ taskKind = "none"
    /\ taskMode = FALSE
    /\ genOutput = PyNone
    /\ taskRet = NotCalled

IdleTask == InitTask

\* Component.train(mode) / Component.eval()
TaskTrain ==
    /\ \E mode \in BOOLEAN : training' = mode
    /\ UNCHANGED <<taskKind, taskMode, genOutput, taskRet>>
    /\ UNCHANGED notTask

OriginalCall ==
    /\ \E output \in LlmCounter(StringCounterOutputs, training) :
          /\ genOutput' = output
          /\ taskRet' = Return(ObjectCountTaskOriginal_call(output, training))
    /\ taskKind' = "ObjectCountTaskOriginal"
    /\ taskMode' = training
    /\ UNCHANGED training
    /\ UNCHANGED notTask

FewShotCall ==
    /\ \E output \in LlmCounter(StringCounterOutputs, training) :
          /\ genOutput' = output
          /\ taskRet' = Return(ObjectCountTaskFewShot_call(output, training))
    /\ taskKind' = "ObjectCountTaskFewShot"
    /\ taskMode' = training
    /\ UNCHANGED training
    /\ UNCHANGED notTask

StructuredCall ==
    /\ \E output \in LlmCounter(StructuredCounterOutputs, training) :
          /\ genOutput' = output
          /\ taskRet' = Return(ObjectCountTask_call(output, training))
    /\ taskKind' = "ObjectCountTask"
    /\ taskMode' = training
    /\ UNCHANGED training
    /\ UNCHANGED notTask

NextTask == TaskTrain \/ OriginalCall \/ FewShotCall \/ StructuredCall

(***************************************************************************)
(* api_client.py: APIClient                                                *)
(***************************************************************************)
\* the methods of APIClient that raise NotImplementedError (lines 48-98)
AbstractMethods ==
    {"_init_sync_client", "_init_async_client", "call",
     "convert_inputs_to_api_kwargs", "parse_chat_completion"}

\* core.data_classes.ModelType, as api_client.py and the tests use it
ModelTypes == {"UNDEFINED", "LLM", "EMBEDDER"}

\* dict arguments: api_kwargs, model_kwargs (a dict is the set of its keys)
KwargsValues == {{}, {"model"}, {"model", "max_tokens"}}

\* input: API_INPUT_TYPE = None, a str or a sequence of str (lines 28-30, 75)
InputValues == {"None", "str", "Sequence[str]"}

\* completion: Any (line 92)
CompletionValues == {"None", "completion"}

\* what a method leaves behind: how it ended and the two client attributes
Effect(ret, sync, async) == [ret |-> ret, sync_client |-> sync, async_client |-> async]

\* lines 41-46: __init__ sets both clients to None and calls nothing else
APIClient_init == Effect(Return(PyNone), PyNone, PyNone)

\* lines 48-51
APIClient_init_sync_client(sync, async) ==
    Effect(Raise("NotImplementedError"), sync, async)

\* lines 53-56
APIClient_init_async_client(sync, async) ==
    Effect(Raise("NotImplementedError"), sync, async)

\* call with the body of acall: pass
APIClient_call_Pass(sync, async, api_kwargs, model_type) ==
    Effect(Return(PyNone), sync, async)

\* lines 58-65
APIClient_call(sync, async, api_kwargs, model_type) ==
    Effect(Raise("NotImplementedError"), sync, async)

\* lines 67-71: the coroutine's body is pass
APIClient_acall(sync, async, api_kwargs, model_type) ==
    Effect(Return(PyNone), sync, async)

\* lines 73-90
APIClient_convert_inputs_to_api_kwargs(sync, async, input, model_kwargs, model_type) ==
    Effect(Raise("NotImplementedError"), sync, async)

\* lines 92-98
APIClient_parse_chat_completion(sync, async, completion) ==
    Effect(Raise("NotImplementedError"), sync, async)

\* a client object a subclass creates
ClientObject(kind) == [type |-> kind]

\* A method the class overrides runs the subclass's code: it returns, and an
\* overriding _init_*_client returns a new client object.
SubclassMethod(m, sync, async) ==
    Effect(Return(IF m = "_init_sync_client" THEN ClientObject("sync")
                  ELSE IF m = "_init_async_client" THEN ClientObject("async")
                  ELSE [type |-> "subclass_result"]),
           sync, async)

\* method resolution: the subclass's method when it overrides, else APIClient's
Resolve(m, base) ==
    IF m \in overrides THEN SubclassMethod(m, sync_client, async_client) ELSE base

Called(m, args, eff) == [method |-> m, args |-> args, ret |-> eff.ret]

InitClient ==
    /\ phase = "none"
    /\ overrides = {}
    /\ ownInit = FALSE
    /\ sync_client = PyNone
    /\ async_client = PyNone
    /\ clientRet = NotCalled

IdleClient == InitClient

\* An instance of APIClient or of a subclass is created: APIClient.__init__
\* runs (a subclass __init__ reaches it through super().__init__()).
ClientNew ==
    /\ phase \in {"none", "ready", "failed"}
    /\ \E ov \in SUBSET AbstractMethods, own \in BOOLEAN :
          /\ overrides' = ov
          /\ ownInit' = own
          /\ phase' = IF own THEN "subclass_init" ELSE "ready"
    /\ sync_client' = APIClient_init.sync_client
    /\ async_client' = APIClient_init.async_client
    /\ clientRet' = NotCalled
    /\ UNCHANGED notClient

\* The rest of a subclass __init__, as the module docstring asks of it:
\* self.sync_client = self._init_sync_client().  With no override the call
\* raises and construction fails.
SubclassInit ==
    /\ phase = "subclass_init"
    /\ LET eff == Resolve("_init_sync_client",
                          APIClient_init_sync_client(sync_client, async_client)) IN
          IF eff.ret.kind = "raise"
          THEN /\ phase' = "failed"
               /\ UNCHANGED sync_client
          ELSE /\ phase' = "ready"
               /\ sync_client' = eff.ret.value
    /\ UNCHANGED <<overrides, ownInit, async_client, clientRet>>
    /\ UNCHANGED notClient

\* the effect of a method call on the instance
Apply(m, args, eff) ==
    /\ phase = "ready"
    /\ clientRet' = Called(m, args, eff)
    /\ sync_client' = eff.sync_client
    /\ async_client' = eff.async_client
    /\ UNCHANGED <<phase, overrides, ownInit>>
    /\ UNCHANGED notClient

Call_init_sync_client ==
    Apply("_init_sync_client", <<>>,
          Resolve("_init_sync_client",
                  APIClient_init_sync_client(sync_client, async_client)))

Call_init_async_client ==
    Apply("_init_async_client", <<>>,
          Resolve("_init_async_client",
                  APIClient_init_async_client(sync_client, async_client)))

ClientCall ==
    \E api_kwargs \in KwargsValues, model_type \in ModelTypes :
        Apply("call", <<api_kwargs, model_type>>,
              Resolve("call",
                      APIClient_call(sync_client, async_client, api_kwargs, model_type)))

ClientAcall ==
    \E api_kwargs \in KwargsValues, model_type \in ModelTypes :
        Apply("acall", <<api_kwargs, model_type>>,
              APIClient_acall(sync_client, async_client, api_kwargs, model_type))

ClientConvertInputs ==
    \E input \in InputValues, model_kwargs \in KwargsValues, model_type \in ModelTypes :
        Apply("convert_inputs_to_api_kwargs", <<input, model_kwargs, model_type>>,
              Resolve("convert_inputs_to_api_kwargs",
                      APIClient_convert_inputs_to_api_kwargs(
                          sync_client, async_client, input, model_kwargs, model_type)))

ClientParseChatCompletion ==
    \E completion \in CompletionValues :
        Apply("parse_chat_completion", <<completion>>,
              Resolve("parse_chat_completion",
                      APIClient_parse_chat_completion(sync_client, async_client, completion)))

\* a subclass that initialises the async client stores it on first use
SubclassSetAsync ==
    /\ phase = "ready"
    /\ "_init_async_client" \in overrides
    /\ async_client' = SubclassMethod("_init_async_client", sync_client, async_client).ret.value
    /\ UNCHANGED <<phase, overrides, ownInit, sync_client, clientRet>>
    /\ UNCHANGED notClient

NextClient ==
    \/ ClientNew
    \/ SubclassInit
    \/ Call_init_sync_client
    \/ Call_init_async_client
    \/ ClientCall
    \/ ClientAcall
    \/ ClientConvertInputs
    \/ ClientParseChatCompletion
    \/ SubclassSetAsync

(***************************************************************************)
(* test_litellm_class.py: what the tests require of LiteLLMClient and of a *)
(* Generator or Embedder built on it.                                      *)
(***************************************************************************)
\* the names os.environ may hold; the first is the key of the tested models
EnvNames == {"OPENAI_API_KEY", "HOME"}
ApiKeyNames == {"OPENAI_API_KEY"}

HasApiKey(env) == env \cap ApiKeyNames # {}

\* model_kwargs of the tests: {}, {"model": "gpt-4o"}, {"model": "text-embedding-ada-002"}
LlmModelKwargs == {<<>>, <<"gpt-4o">>, <<"text-embedding-ada-002">>}

NamesModel(model_kwargs) == model_kwargs # <<>>

LlmInputs == {"Hello World", ""}

LlmOutput(kind) == [type |-> kind]

\* a client call that does not look at the environment
LiteLLMClient_call_NoKeyCheck(env, api_kwargs, model_type) ==
    Return(LlmOutput("completion"))

\* lines 16-20: without an API key, client.call raises ValueError
LiteLLMClient_call(env, api_kwargs, model_type) ==
    IF ~HasApiKey(env) THEN Raise("ValueError")
    ELSE Return(LlmOutput("completion"))

\* the async twin of call (lines 47-54 reach it through Embedder.acall)
LiteLLMClient_acall(env, api_kwargs, model_type) ==
    IF ~HasApiKey(env) THEN Raise("ValueError")
    ELSE Return(LlmOutput("completion"))

\* lines 22-35: Generator(model_client=LiteLLMClient(), model_kwargs=...).call(...)
\* raises ValueError when model_kwargs names no model, and lets the client's
\* ValueError through
Generator_call(env, model_kwargs, prompt_kwargs) ==
    IF ~NamesModel(model_kwargs) THEN Raise("ValueError")
    ELSE LET r == LiteLLMClient_call(env, model_kwargs, "LLM") IN
         IF r.kind = "raise" THEN r ELSE Return(LlmOutput("GeneratorOutput"))

\* lines 37-45
Embedder_call(env, model_kwargs, input) ==
    LET r == LiteLLMClient_call(env, model_kwargs, "EMBEDDER") IN
    IF r.kind = "raise" THEN r ELSE Return(LlmOutput("EmbedderOutput"))

\* lines 47-54
Embedder_acall(env, model_kwargs, input) ==
    LET r == LiteLLMClient_acall(env, model_kwargs, "EMBEDDER") IN
    IF r.kind = "raise" THEN r ELSE Return(LlmOutput("EmbedderOutput"))

LlmCalled(entry, model_kwargs, arg, ret) ==
    [entry |-> entry, model_kwargs |-> model_kwargs, arg |-> arg, ret |-> ret]

InitLlm ==
    /\ environ \in SUBSET EnvNames
    /\ llmRet = NotCalled

IdleLlm ==
    /\ environ = {}
    /\ llmRet = NotCalled

\* @patch.dict(os.environ, clear=True), or the environment set up again
LlmSetEnviron ==
    /\ environ' \in SUBSET EnvNames
    /\ UNCHANGED llmRet
    /\ UNCHANGED notLlm

LlmClientCall ==
    /\ \E api_kwargs \in LlmModelKwargs \ {<<>>}, model_type \in ModelTypes \ {"UNDEFINED"} :
          llmRet' = LlmCalled("LiteLLMClient.call", api_kwargs, model_type,
                              LiteLLMClient_call(environ, api_kwargs, model_type))
    /\ UNCHANGED environ
    /\ UNCHANGED notLlm

LlmGeneratorCall ==
    /\ \E model_kwargs \in LlmModelKwargs, prompt_kwargs \in LlmInputs :
          llmRet' = LlmCalled("Generator.call", model_kwargs, prompt_kwargs,
                              Generator_call(environ, model_kwargs, prompt_kwargs))
    /\ UNCHANGED environ
    /\ UNCHANGED notLlm

LlmEmbedderCall ==
    /\ \E model_kwargs \in LlmModelKwargs \ {<<>>}, input \in LlmInputs :
          llmRet' = LlmCalled("Embedder.call", model_kwargs, input,
                              Embedder_call(environ, model_kwargs, input))
    /\ UNCHANGED environ
    /\ UNCHANGED notLlm

LlmEmbedderAcall ==
    /\ \E model_kwargs \in LlmModelKwargs \ {<<>>}, input \in LlmInputs :
          llmRet' = LlmCalled("Embedder.acall", model_kwargs, input,
                              Embedder_acall(environ, model_kwargs, input))
    /\ UNCHANGED environ
    /\ UNCHANGED notLlm

NextLlm ==
    \/ LlmSetEnviron
    \/ LlmClientCall
    \/ LlmGeneratorCall
    \/ LlmEmbedderCall
    \/ LlmEmbedderAcall

(***************************************************************************)
(* text_grad: LLMAsTextLoss (llm_text_loss.py), the feedback-engine        *)
(* templates (backend_engine_prompt.py) and the backward pass they serve.  *)
(***************************************************************************)
\* TEXT_LOSS_TEMPLATE (llm_text_loss.py lines 19-25): its two variables
LossKeys == {1, 2}
KeyName(k) == IF k = 1 THEN "eval_system_prompt" ELSE "eval_user_prompt"

\* what the caller may pass for a key: a str, or a Parameter of its own
CallerValues == {"str", "Parameter(requires_opt=True)", "Parameter(requires_opt=False)"}

IsParameter(v) == v # "str"

\* identities of Parameter objects
CallerParam(k) == <<"caller", k>>
LossParam(k) == <<"loss", k>>
PromptParam(i) == <<"prompt", i>>
Response(i) == <<"resp", i>>
LossOutput == <<"out", 0>>

Parameter(data, requires_opt, role_desc, predecessors) ==
    [data |-> data, requires_opt |-> requires_opt, role_desc |-> role_desc,
     gradients |-> <<>>, predecessors |-> predecessors]

\* the prompt Parameter of layer i (one object for all layers when shared)
PromptOf(i) == IF sharedPrompt THEN PromptParam(1) ELSE PromptParam(i)

\* copy.deepcopy of a Parameter: an equal object (of a new identity)
DeepCopy(obj) == obj

\* llm_text_loss.py lines 51-57: prompt_kwargs = deepcopy(prompt_kwargs), then
\* every str value replaced by a new Parameter; each key ends up naming an
\* object created in __init__
LossPromptKwargs(kwargs) == [k \in DOMAIN kwargs |-> LossParam(k)]

\* the objects __init__ creates (lines 51-56)
LossObjects(kwargs, h) ==
    [k \in DOMAIN kwargs |->
        IF IsParameter(kwargs[k]) THEN DeepCopy(h[CallerParam(k)])
        ELSE Parameter(KeyName(k), FALSE, KeyName(k), {})]

\* ---- backend_engine_prompt.py ------------------------------------------
\* lines 38-39
CONVERSATION_TEMPLATE(llm_prompt, response_value) ==
    [template |-> "CONVERSATION_TEMPLATE", llm_prompt |-> llm_prompt,
     response_value |-> response_value]

\* lines 43-55
CONVERSATION_START_INSTRUCTION_BASE(variable_value, variable_desc, conversation_str) ==
    [template |-> "CONVERSATION_START_INSTRUCTION_BASE",
     variable_value |-> variable_value, variable_desc |-> variable_desc,
     conversation_str |-> conversation_str]

\* lines 58-70
CONVERSATION_START_INSTRUCTION_CHAIN(variable_value, variable_desc, conversation_str) ==
    [template |-> "CONVERSATION_START_INSTRUCTION_CHAIN",
     variable_value |-> variable_value, variable_desc |-> variable_desc,
     conversation_str |-> conversation_str]

\* lines 73-74: the template has no variable
OBJECTIVE_INSTRUCTION_BASE ==
    [template |-> "OBJECTIVE_INSTRUCTION_BASE"]

\* lines 77-78
OBJECTIVE_INSTRUCTION_CHAIN(response_desc, response_gradient) ==
    [template |-> "OBJECTIVE_INSTRUCTION_CHAIN", response_desc |-> response_desc,
     response_gradient |-> response_gradient]

\* lines 92-113
FEEDBACK_ENGINE_TEMPLATE(conversation_sec, objective_instruction_sec) ==
    [template |-> "FEEDBACK_ENGINE_TEMPLATE", conversation_sec |-> conversation_sec,
     objective_instruction_sec |-> objective_instruction_sec]

\* lines 117-121
GRADIENT_TEMPLATE(context, response_desc, variable_desc, feedback) ==
    [template |-> "GRADIENT_TEMPLATE", context |-> context,
     response_desc |-> response_desc, variable_desc |-> variable_desc,
     feedback |-> feedback]

\* a parameter is treated as the start of the chain whatever it holds
IsChainNever(gradients) == FALSE

\* lines 42 and 57: a parameter with no gradient is the start of the chain (a
\* loss); one with a gradient continues the chain
IsChain(gradients) == gradients # <<>>

\* ---- Parameter and Generator.backward ------------------------------------
RECURSIVE Concat(_)
Concat(texts) ==
    IF texts = <<>> THEN <<>> ELSE Head(texts) \o Concat(Tail(texts))

\* Parameter.get_gradient_text: the feedback texts, concatenated in order
GradientText(gradients) ==
    Concat([i \in 1..Len(gradients) |-> gradients[i].feedback])

\* the feedback the engine returns for a call: a text of its own
EngineFeedback(p, response, variable) ==
    <<[pass |-> p, response |-> response, variable |-> variable]>>

\* the prompt sent to the feedback engine for one variable of one response
EnginePrompt(h, variable, response) ==
    LET conv == CONVERSATION_TEMPLATE(h[response].predecessors, h[response].data) IN
    IF IsChain(h[response].gradients)
    THEN FEEDBACK_ENGINE_TEMPLATE(
             CONVERSATION_START_INSTRUCTION_CHAIN(h[variable].data,
                                                  h[variable].role_desc, conv),
             OBJECTIVE_INSTRUCTION_CHAIN(h[response].role_desc,
                                         GradientText(h[response].gradients)))
    ELSE FEEDBACK_ENGINE_TEMPLATE(
             CONVERSATION_START_INSTRUCTION_BASE(h[variable].data,
                                                 h[variable].role_desc, conv),
             OBJECTIVE_INSTRUCTION_BASE)

\* the predecessors of a node, in the order backward visits them
PredOrder(node, d) ==
    IF node = LossOutput
    THEN [k \in 1..Cardinality(LossKeys) |-> lossKwargs[k]] \o <<Response(d)>>
    ELSE LET i == node[2] IN
         <<PromptOf(i)>> \o (IF i > 1 THEN <<Response(i - 1)>> ELSE <<>>)

\* the nodes of one forward pass in reverse topological order: the loss
\* output first, then the responses from the last layer to the first
ReverseTopological(d) == <<LossOutput>> \o [j \in 1..d |-> Response(d + 1 - j)]

\* the new entry replaces what the parameter held
AddGradientOverwrite(gradients, g) == <<g>>

\* Parameter.gradients gains one entry
AddGradient(gradients, g) == Append(gradients, g)

\* one engine call, as logged
EngineCall(h, p, variable, response) ==
    [pass |-> p, variable |-> variable, response |-> response,
     response_gradients |-> h[response].gradients,
     prompt |-> EnginePrompt(h, variable, response),
     feedback |-> EngineFeedback(p, response, variable)]

\* the predecessors of a node that take feedback
Targets(h, node, d) == SelectSeq(PredOrder(node, d), LAMBDA v : h[v].requires_opt)

InitGrad ==
    /\ depth \in 1..MaxDepth
    /\ sharedPrompt \in BOOLEAN
    /\ callerKwargs \in [LossKeys -> CallerValues]
    /\ heap = [id \in {CallerParam(k) : k \in {x \in LossKeys : IsParameter(callerKwargs[x])}}
                      \cup {PromptOf(i) : i \in 1..depth} |->
                 IF id[1] = "caller"
                 THEN Parameter(KeyName(id[2]),
                                callerKwargs[id[2]] = "Parameter(requires_opt=True)",
                                KeyName(id[2]), {})
                 ELSE Parameter("system prompt", TRUE, "task_instruction", {})]
    /\ lossKwargs = <<>>
    /\ gradPc = "new"
    /\ passNo = 0
    /\ todo = <<>>
    /\ engineCalls = <<>>

IdleGrad ==
    /\ depth = 0
    /\ sharedPrompt = FALSE
    /\ callerKwargs = <<>>
    /\ heap = <<>>
    /\ lossKwargs = <<>>
    /\ gradPc = "none"
    /\ passNo = 0
    /\ todo = <<>>
    /\ engineCalls = <<>>

\* llm_text_loss.py lines 43-64: LLMAsTextLoss.__init__
LossInit ==
    /\ gradPc = "new"
    /\ lossKwargs' = LossPromptKwargs(callerKwargs)
    /\ heap' = [id \in DOMAIN heap \cup {lossKwargs'[k] : k \in DOMAIN callerKwargs} |->
                  IF id \in DOMAIN heap /\ id[1] # "loss" THEN heap[id]
                  ELSE LossObjects(callerKwargs, heap)[id[2]]]
    /\ gradPc' = "built"
    /\ UNCHANGED <<callerKwargs, depth, sharedPrompt, passNo, todo, engineCalls>>
    /\ UNCHANGED notGrad

\* the generator layers run forward: each makes a new response Parameter
\* whose predecessors are its prompt and the response of the layer before
TaskForward ==
    /\ gradPc \in {"built", "done"}
    /\ passNo < MaxPasses
    /\ heap' = [id \in DOMAIN heap \cup {Response(i) : i \in 1..depth} |->
                  IF id[1] = "resp"
                  THEN Parameter(<<"response", passNo + 1, id[2]>>, TRUE, "response",
                                 {PromptOf(id[2])}
                                 \cup (IF id[2] > 1 THEN {Response(id[2] - 1)} ELSE {}))
                  ELSE heap[id]]
    /\ gradPc' = "task_done"
    /\ UNCHANGED <<callerKwargs, lossKwargs, depth, sharedPrompt, passNo, todo, engineCalls>>
    /\ UNCHANGED notGrad

\* llm_text_loss.py lines 66-71: LLMAsTextLoss.forward returns
\* loss_llm.forward(...): a new Parameter whose predecessors are the loss
\* generator's prompt Parameters and the response passed in
LossForward ==
    /\ gradPc = "task_done"
    /\ heap' = [id \in DOMAIN heap \cup {LossOutput} |->
                  IF id = LossOutput
                  THEN Parameter(<<"evaluation", passNo + 1, 0>>, TRUE, "loss",
                                 {lossKwargs[k] : k \in DOMAIN lossKwargs}
                                 \cup {Response(depth)})
                  ELSE heap[id]]
    /\ gradPc' = "forwarded"
    /\ UNCHANGED <<callerKwargs, lossKwargs, depth, sharedPrompt, passNo, todo, engineCalls>>
    /\ UNCHANGED notGrad

\* loss.backward(): the nodes are put in reverse topological order
BackwardStart ==
    /\ gradPc = "forwarded"
    /\ todo' = ReverseTopological(depth)
    /\ passNo' = passNo + 1
    /\ gradPc' = "backward"
    /\ UNCHANGED <<heap, callerKwargs, lossKwargs, depth, sharedPrompt, engineCalls>>
    /\ UNCHANGED notGrad

\* Generator.backward for the next node: one engine call per predecessor that
\* requires optimisation; the feedback is added to that predecessor's gradients
BackwardStep ==
    /\ gradPc = "backward"
    /\ todo # <<>>
    /\ LET node == Head(todo)
           targets == Targets(heap, node, depth)
           calls == [j \in 1..Len(targets) |-> EngineCall(heap, passNo, targets[j], node)]
       IN /\ engineCalls' = engineCalls \o calls
          /\ heap' = [id \in DOMAIN heap |->
                        IF \E j \in 1..Len(targets) : targets[j] = id
                        THEN LET j == CHOOSE x \in 1..Len(targets) : targets[x] = id IN
                             [heap[id] EXCEPT !.gradients =
                                 AddGradient(@, GRADIENT_TEMPLATE(
                                     calls[j].prompt.conversation_sec.conversation_str,
                                     heap[node].role_desc, heap[id].role_desc,
                                     calls[j].feedback))]
                        ELSE heap[id]]
    /\ todo' = Tail(todo)
    /\ gradPc' = IF Tail(todo) = <<>> THEN "done" ELSE "backward"
    /\ UNCHANGED <<callerKwargs, lossKwargs, depth, sharedPrompt, passNo>>
    /\ UNCHANGED notGrad

NextGrad == LossInit \/ TaskForward \/ LossForward \/ BackwardStart \/ BackwardStep

vars == <<parseVars, taskVars, clientVars, llmVars, gradVars>>

\* the parser alone
ParseSystem == InitParse /\ IdleTask /\ IdleClient /\ IdleLlm /\ IdleGrad

SpecParse == ParseSystem /\ [][NextParse]_vars

\* the task components alone
TaskSystem == InitTask /\ IdleParse /\ IdleClient /\ IdleLlm /\ IdleGrad

SpecTask == TaskSystem /\ [][NextTask]_vars

\* an APIClient alone
ClientSystem == InitClient /\ IdleParse /\ IdleTask /\ IdleLlm /\ IdleGrad

SpecClient == ClientSystem /\ [][NextClient]_vars

\* a LiteLLMClient and its users alone
LlmSystem == InitLlm /\ IdleParse /\ IdleTask /\ IdleClient /\ IdleGrad

SpecLlm == LlmSystem /\ [][NextLlm]_vars

\* the text-gradient protocol alone
GradSystem == InitGrad /\ IdleParse /\ IdleTask /\ IdleClient /\ IdleLlm

SpecGrad == GradSystem /\ [][NextGrad]_vars

(***************************************************************************)
(* Claims about _parse_integer_answer (checked under SpecParse).           *)
(***************************************************************************)
ParseDone == parseRet # NotCalled

TextOfCall == ConsideredText(answer, only_first_line)

\* no whitespace-separated token of the considered text contains a digit
NoDigitToken ==
    \A i \in 1..Len(Split(TextOfCall)) : ~HasDigit(Split(TextOfCall)[i])

\* C6: _parse_integer_answer is total on strings: for every string and either
\* value of only_first_line the call returns (it does not raise), the result
\* is an integer >= 0, and it is 0 whenever no whitespace-separated token of
\* the considered text contains a digit.
C6_ParseTotal ==
    ParseDone =>
        /\ parseRet.kind = "return"
        /\ parseRet.value \in Nat
        /\ (NoDigitToken => parseRet.value = 0)

\* C6 witness: a call on a non-empty first line without any digit, in
\* only_first_line mode, has returned 0 while a later line holds a number.
C6_Witness ==
    /\ ParseDone
    /\ only_first_line
    /\ TextOfCall # <<>>
    /\ NoDigitToken
    /\ \E i \in 1..Len(answer) : IsDigit(answer[i])
    /\ parseRet = Return(0)

\* the value of a digit character: U+00B2 is the digit two
ClaimedDigitValue(c) == IF c = SUP2 THEN 2 ELSE DigitValue(c)

\* the integer formed by a string of digit characters
RECURSIVE ClaimedInteger(_)
ClaimedInteger(ds) ==
    IF ds = <<>> THEN 0
    ELSE 10 * ClaimedInteger(SubSeq(ds, 1, Len(ds) - 1))
         + ClaimedDigitValue(ds[Len(ds)])

\* the numeral N of a response whose last line is 'Answer: N'
AnswerNumeral(a) ==
    CHOOSE n \in Numerals :
        /\ Len(a) >= Len(AnswerPrefix \o n)
        /\ SubSeq(a, Len(a) - Len(AnswerPrefix \o n) + 1, Len(a)) = AnswerPrefix \o n

\* C7 (the claim as stated): the call returns the integer formed by the
\* digits of the part before the first '.' of the last token that contains a
\* digit; and on a response whose last line is 'Answer: N' the default mode
\* returns N.
C7_ParseLastNumber ==
    ParseDone =>
        /\ (DigitTokens(TextOfCall) # <<>> =>
              parseRet = Return(ClaimedInteger(
                  DigitsOf(DigitTokens(TextOfCall)[Len(DigitTokens(TextOfCall))]))))
        /\ (answer \in AnswerResponses /\ ~only_first_line =>
              parseRet = Return(DecimalValue(AnswerNumeral(answer))))

\* C7 (amended): as above, except that the result is 0 when int() rejects
\* the digits: the part before the first '.' has no digit, or it holds a
\* digit character that is not a decimal digit (such as U+00B2).
C7_ParseLastNumberOrZero ==
    ParseDone =>
        LET toks == DigitTokens(TextOfCall) IN
        /\ (toks # <<>> =>
              LET ds == DigitsOf(toks[Len(toks)]) IN
              parseRet = Return(IF \A i \in 1..Len(ds) : ds[i] \in DecimalDigits
                                THEN DecimalValue(ds) ELSE 0))
        /\ (answer \in AnswerResponses /\ ~only_first_line =>
              parseRet = Return(DecimalValue(AnswerNumeral(answer))))

\* C7 witness: of two tokens with a number, the call has returned the number
\* in front of the '.' of the second one.
C7_Witness ==
    /\ ParseDone
    /\ Len(DigitTokens(TextOfCall)) = 2
    /\ DigitTokens(TextOfCall)[1] = <<"1">>
    /\ DigitTokens(TextOfCall)[2] = <<"7", ".">>
    /\ parseRet = Return(7)

(***************************************************************************)
(* Claims about the task components (checked under SpecTask).              *)
(***************************************************************************)
TaskDone == taskRet # NotCalled

\* the integer answer held by the data of a generator output
AnswerOfData(d) == IF d.type = "int" THEN d.value ELSE d.answer

\* C8 (the claim as stated): in evaluation mode call returns -1 exactly when
\* the output's data is None and otherwise the integer answer of the data; in
\* training mode it returns the generator's output unchanged.
C8_MinusOneIffNone ==
    TaskDone =>
        IF taskMode
        THEN taskRet = Return(genOutput)
        ELSE /\ (taskRet = Return(PyInt(0 - 1)) <=> genOutput.data = PyNone)
             /\ (genOutput.data # PyNone =>
                    taskRet = Return(PyInt(AnswerOfData(genOutput.data))))

\* C8 (amended): in evaluation mode call returns -1 whenever the output's
\* data is None and otherwise the integer answer of the data; for
\* ObjectCountTaskOriginal and ObjectCountTaskFewShot the result is -1 only
\* when the data is None (ObjectCountTask returns an answer field of -1 as it
\* is); in training mode call returns the generator's output unchanged.
C8_MinusOneWhenNone ==
    TaskDone =>
        IF taskMode
        THEN taskRet = Return(genOutput)
        ELSE /\ (genOutput.data = PyNone => taskRet = Return(PyInt(0 - 1)))
             /\ (genOutput.data # PyNone =>
                    taskRet = Return(PyInt(AnswerOfData(genOutput.data))))
             /\ (taskKind # "ObjectCountTask" /\ taskRet = Return(PyInt(0 - 1))
                    => genOutput.data = PyNone)

\* C8 witness: ObjectCountTaskOriginal, evaluating, got no data and returned -1.
C8_Witness ==
    /\ TaskDone
    /\ taskKind = "ObjectCountTaskOriginal"
    /\ ~taskMode
    /\ genOutput.data = PyNone
    /\ taskRet = Return(PyInt(0 - 1))

(***************************************************************************)
(* Claims about APIClient (checked under SpecClient).                      *)
(***************************************************************************)
\* C4 (the claim as stated): when construction of an APIClient or of a
\* subclass that runs APIClient.__init__ has completed, _init_sync_client()
\* has been called and sync_client is not left unset.
C4_SyncClientInitialized ==
    phase = "ready" => sync_client # PyNone

\* a step that is a call of an abstract method the class does not override
AbstractCallStep ==
    /\ clientRet' # NotCalled
    /\ clientRet' # clientRet
    /\ clientRet'.method \in AbstractMethods
    /\ clientRet'.method \notin overrides

\* C5: on an APIClient whose class does not override them, each of call,
\* convert_inputs_to_api_kwargs, parse_chat_completion, _init_sync_client and
\* _init_async_client raises NotImplementedError whatever the arguments, and
\* leaves sync_client and async_client unchanged.
C5_AbstractMethodsRaise ==
    [][AbstractCallStep =>
          /\ clientRet'.ret = Raise("NotImplementedError")
          /\ sync_client' = sync_client
          /\ async_client' = async_client]_vars

\* C5 witness: on a ready instance whose class set up both clients but does
\* not override call, call has raised NotImplementedError.
C5_Witness ==
    /\ phase = "ready"
    /\ clientRet # NotCalled
    /\ clientRet.method = "call"
    /\ "call" \notin overrides
    /\ clientRet.ret = Raise("NotImplementedError")
    /\ sync_client # PyNone
    /\ async_client # PyNone

(***************************************************************************)
(* Claims about LiteLLMClient (checked under SpecLlm).                     *)
(***************************************************************************)
\* a step that is a call made without the configuration it needs: no API key
\* in the environment, or (for Generator.call) no model in model_kwargs
UnconfiguredCallStep ==
    /\ llmRet' # NotCalled
    /\ llmRet' # llmRet
    /\ \/ ~HasApiKey(environ)
       \/ llmRet'.entry = "Generator.call" /\ ~NamesModel(llmRet'.model_kwargs)

\* C3: a call through LiteLLMClient that lacks required configuration raises
\* ValueError instead of returning an output: LiteLLMClient.call,
\* Generator.call, Embedder.call and Embedder.acall without an API key, and
\* Generator.call with model_kwargs that name no model.
C3_UnconfiguredRaisesValueError ==
    [][UnconfiguredCallStep => llmRet'.ret = Raise("ValueError")]_vars

\* C3 witness: Embedder.acall, made with a model but no API key in the
\* environment, has raised ValueError.
C3_Witness ==
    /\ llmRet # NotCalled
    /\ llmRet.entry = "Embedder.acall"
    /\ NamesModel(llmRet.model_kwargs)
    /\ ~HasApiKey(environ)
    /\ llmRet.ret = Raise("ValueError")

(***************************************************************************)
(* Claims about the text-gradient protocol (checked under SpecGrad).       *)
(***************************************************************************)
\* the node directly downstream of a response: the next layer's response, or
\* the loss output for the last layer
Downstream(node) ==
    IF node[2] = depth THEN LossOutput ELSE Response(node[2] + 1)

\* the engine calls of pass p that gave feedback to a variable, in order
ReceivedIn(variable, p) ==
    SelectSeq(engineCalls, LAMBDA c : c.variable = variable /\ c.pass = p)

FeedbackOf(calls) == Concat([i \in 1..Len(calls) |-> calls[i].feedback])

\* C1: the engine prompt built for a variable uses the BASE start instruction
\* and BASE objective exactly when the generator's output has no gradient yet
\* (the start of the chain: the loss), and the CHAIN start instruction and
\* CHAIN objective, with the output's gradient text as response_gradient,
\* exactly when the output already has a gradient; the feedback of every
\* layer is derived from the feedback of the layer directly downstream.
C1_PromptFollowsChain ==
    \A n \in 1..Len(engineCalls) :
        LET c == engineCalls[n]
            start == c.prompt.conversation_sec.template
            obj == c.prompt.objective_instruction_sec
        IN /\ (c.response_gradients = <<>>) <=>
                  (/\ start = "CONVERSATION_START_INSTRUCTION_BASE"
                   /\ obj.template = "OBJECTIVE_INSTRUCTION_BASE")
           /\ (c.response_gradients # <<>>) <=>
                  (/\ start = "CONVERSATION_START_INSTRUCTION_CHAIN"
                   /\ obj.template = "OBJECTIVE_INSTRUCTION_CHAIN")
           /\ (c.response_gradients = <<>>) <=> (c.response = LossOutput)
           /\ (c.response # LossOutput =>
                  /\ obj.response_gradient = FeedbackOf(ReceivedIn(c.response, c.pass))
                  /\ obj.response_gradient # <<>>
                  /\ \A m \in 1..Len(ReceivedIn(c.response, c.pass)) :
                        ReceivedIn(c.response, c.pass)[m].response = Downstream(c.response))

\* C1 witness: in a chain of two layers, the prompt of the first layer got a
\* CHAIN engine prompt whose response_gradient is the feedback the second
\* layer's backward gave to the first layer's response.
C1_Witness ==
    /\ depth = 2
    /\ \E n \in 1..Len(engineCalls) :
          /\ engineCalls[n].response = Response(1)
          /\ engineCalls[n].variable = PromptOf(1)
          /\ engineCalls[n].prompt.objective_instruction_sec.template
                = "OBJECTIVE_INSTRUCTION_CHAIN"
          /\ engineCalls[n].prompt.objective_instruction_sec.response_gradient
                = EngineFeedback(engineCalls[n].pass, Response(2), Response(1))

\* the pass in which the object now held under an identity was made: 0 for
\* the parameters that live across passes
MadeIn(id) == IF id[1] \in {"resp", "out"} THEN heap[id].data[2] ELSE 0

\* every engine call that gave feedback to the object, in order
Received(id) ==
    SelectSeq(engineCalls,
              LAMBDA c : c.variable = id /\ (MadeIn(id) # 0 => c.pass = MadeIn(id)))

\* C2: gradient accumulation is text concatenation: a parameter's gradient
\* holds every piece of feedback it received, in the order received, across
\* any number of backward passes; nothing is overwritten or dropped.
C2_GradientsAccumulate ==
    \A id \in DOMAIN heap :
        /\ Len(heap[id].gradients) = Len(Received(id))
        /\ \A j \in 1..Len(Received(id)) :
              heap[id].gradients[j].feedback = Received(id)[j].feedback
        /\ GradientText(heap[id].gradients) = FeedbackOf(Received(id))

\* C2 witness: a prompt parameter holds the feedback of the first pass
\* followed by the feedback of the second pass.
C2_Witness ==
    \E id \in DOMAIN heap :
        /\ id[1] = "prompt"
        /\ Len(heap[id].gradients) >= 2
        /\ heap[id].gradients[1].feedback[1].pass = 1
        /\ heap[id].gradients[Len(heap[id].gradients)].feedback[1].pass = 2

\* C9 (the claim as stated): a Parameter the caller supplies in the
\* prompt_kwargs of the LLMAsTextLoss constructor is the upstream node of the
\* loss, so after a backward pass the feedback attached to the loss
\* generator's Parameter for that key is on the caller's Parameter.
C9_FeedbackOnCallerParameter ==
    gradPc = "done" =>
        \A k \in LossKeys :
            IsParameter(callerKwargs[k]) =>
                heap[CallerParam(k)].gradients = heap[lossKwargs[k]].gradients

=============================================================================
